---------------------------- MODULE Spec2Model ----------------------------
(***************************************************************************)
(* The CPU-scheduling page of scheduler-sim (MainForm, src/unnamed/        *)
(* part_000 lines 44-352): the process list and its editing handlers, the  *)
(* "Run Simulation" handler onSubmit with its strategy dispatch and its    *)
(* timeline assembly, and the six scheduling strategies onSubmit calls.    *)
(*                                                                         *)
(* The strategies (@/lib/FirstComeFirstServe ... @/lib/PriorityPreemptive),*)
(* ProcessForm and SummaryTable are imported by MainForm but their code is *)
(* not part of the sources; they are modelled from sections 4.2-4.9 of the *)
(* specification.                                                          *)
(*                                                                         *)
(* An optional value (priority?, quantum, editIndex: number | null) is a   *)
(* sequence of length 0 (undefined / null) or 1 (the value). Lists are     *)
(* indexed from 1, so editIndex = <<i>> stands for row i - 1 of the code.  *)
(***************************************************************************)
EXTENDS Integers, Sequences, FiniteSets

VARIABLES
    processes,          \* useState<Process[]>       (line 119)
    timeline,           \* useState<Process[]>       (line 120)
    metrics,            \* useState({...})           (lines 121-127)
    popoverOpen,        \* useState(false)           (line 129)
    editIndex,          \* useState<number | null>   (line 130)
    selectedAlgorithm,  \* useState<string>("")      (line 131), = form.algorithm
    quantum,            \* the form's quantum field  (lines 100-103)
    toast,              \* the notification react-toastify shows (line 151)
    run                 \* the strategy call of the last onSubmit and its loop state

vars == <<processes, timeline, metrics, popoverOpen, editIndex,
          selectedAlgorithm, quantum, toast, run>>

---------------------------------------------------------------------------
(* Bounds of the model *)

MaxProcs == 2

MaxQuantum == 2

(* Program constant: z.coerce.number().lte(100) *)
QuantumLimit == 100

---------------------------------------------------------------------------
(* Values *)

Undefined == <<>>

Some(v) == <<v>>

Max(a, b) == IF a >= b THEN a ELSE b

Min(a, b) == IF a <= b THEN a ELSE b

(* The <SelectItem value=...> of the algorithm picker. *)
Algorithms == {"fCFS", "RR", "SJF", "SRTF", "NPPS", "PPS"}

(* What the user can type into the process form: arrival_time >= 0,       *)
(* burst_time > 0, and a priority only when the priority field is shown.   *)
ArrivalTimes == {0, 1, 2}

BurstTimes == {1, 3}

Priorities == {1, 2}

(* The quantum field: <Input type="number">, coerced by zod; empty and     *)
(* negative entries pass the schema, only values above 100 are refused.    *)
QuantumInputs ==
    {Undefined} \cup {Some(q) : q \in (-1 .. MaxQuantum) \cup {QuantumLimit + 1}}

(* type Process; background (a colour) takes no part in scheduling. *)
Process ==
    [process_id : 1 .. MaxProcs, arrival_time : ArrivalTimes,
     burst_time : BurstTimes, priority : {Undefined} \cup {Some(p) : p \in Priorities}]

showPriority == selectedAlgorithm = "NPPS" \/ selectedAlgorithm = "PPS"

(* ProcessFormValues: what ProcessForm hands to addProcess. *)
ProcessFormValues(withPriority) ==
    [arrival_time : ArrivalTimes, burst_time : BurstTimes,
     priority : IF withPriority THEN {Some(p) : p \in Priorities} ELSE {Undefined}]

(* useState({totalWaiting: 0, ...}); cpuUtil is kept as the exact ratio    *)
(* <<busyTime, totalTime>>.                                                *)
InitialMetrics ==
    [totalWaiting |-> 0, totalTurnaround |-> 0, totalTime |-> 0,
     busyTime |-> 0, cpuUtil |-> <<0, 1>>]

(* No strategy has been called. *)
IdleRun ==
    [pc |-> "idle", algorithm |-> "", quantum |-> 0, procs |-> <<>>,
     clock |-> 0, remaining |-> <<>>, queue |-> <<>>, decisions |-> <<>>]

(* The synchronous handler blocks the page while it loops. *)
Responsive == run.pc \in {"idle", "done"}

---------------------------------------------------------------------------
(* Process list editing *)

(* { ...p, ...data }: the fields the form holds replace those of p. *)
MergeProcess(p, data) ==
    [p EXCEPT !.arrival_time = data.arrival_time,
              !.burst_time = data.burst_time,
              !.priority = IF data.priority = Undefined THEN p.priority
                           ELSE data.priority]

(* { ...data, process_id: prev.length + 1 } *)
NewProcess(prev, data) ==
    [process_id |-> Len(prev) + 1, arrival_time |-> data.arrival_time,
     burst_time |-> data.burst_time, priority |-> data.priority]

(* prev.map((p, i) => (i === editIndex ? { ...p, ...data } : p)) *)
ReplaceAt(prev, index, data) ==
    [i \in 1 .. Len(prev) |->
        IF i = index THEN MergeProcess(prev[i], data) ELSE prev[i]]

addProcess(data) ==
    /\ Responsive
    /\ popoverOpen
    /\ IF editIndex # Undefined
       THEN /\ processes' = ReplaceAt(processes, editIndex[1], data)
            /\ editIndex' = Undefined
       ELSE /\ Len(processes) < MaxProcs
            /\ processes' = Append(processes, NewProcess(processes, data))
            /\ editIndex' = editIndex
    /\ popoverOpen' = FALSE
    /\ UNCHANGED <<timeline, metrics, selectedAlgorithm, quantum, toast, run>>

(* Pencil1Icon onClick of row idx *)
clickEdit(idx) ==
    /\ Responsive
    /\ idx \in 1 .. Len(processes)
    /\ editIndex' = Some(idx)
    /\ popoverOpen' = TRUE
    /\ UNCHANGED <<processes, timeline, metrics, selectedAlgorithm, quantum,
                   toast, run>>

(* Popover onOpenChange={setPopoverOpen}: the "Add Process" trigger, or a  *)
(* dismissal.                                                              *)
onOpenChange(open) ==
    /\ Responsive
    /\ popoverOpen' = open
    /\ UNCHANGED <<processes, timeline, metrics, editIndex, selectedAlgorithm,
                   quantum, toast, run>>

(* Clear All: onClick={() => setProcesses([])} *)
clearAll ==
    /\ Responsive
    /\ processes' = <<>>
    /\ UNCHANGED <<timeline, metrics, popoverOpen, editIndex, selectedAlgorithm,
                   quantum, toast, run>>

(* Select onValueChange: field.onChange(v); setSelectedAlgorithm(v) *)
selectAlgorithm(v) ==
    /\ Responsive
    /\ selectedAlgorithm' = v
    /\ UNCHANGED <<processes, timeline, metrics, popoverOpen, editIndex,
                   quantum, toast, run>>

(* The quantum <Input>, rendered while round robin is selected. *)
setQuantum(q) ==
    /\ Responsive
    /\ selectedAlgorithm = "RR"
    /\ quantum' = q
    /\ UNCHANGED <<processes, timeline, metrics, popoverOpen, editIndex,
                   selectedAlgorithm, toast, run>>

---------------------------------------------------------------------------
(* The strategies: one loop state, one step per decision.                  *)
(*   procs      the list the strategy was called with                      *)
(*   remaining  remaining_time per process, initialised to burst_time      *)
(*   clock      the simulation clock                                       *)
(*   queue      round robin's ready queue (indices into procs)             *)
(*   decisions  what ran, for how long, and the clock when it ran          *)

Indices(st) == 1 .. Len(st.procs)

Unfinished(st) == {i \in Indices(st) : st.remaining[i] > 0}

Finished(st) == Unfinished(st) = {}

(* Arrival order, ties by id. *)
Earlier(st, i, j) ==
    \/ st.procs[i].arrival_time < st.procs[j].arrival_time
    \/ /\ st.procs[i].arrival_time = st.procs[j].arrival_time
       /\ st.procs[i].process_id < st.procs[j].process_id

(* Lower priority value = more urgent; a process without a priority is     *)
(* never preferred to one that has one.                                    *)
MoreUrgent(st, i, j) ==
    /\ st.procs[i].priority # Undefined
    /\ \/ st.procs[j].priority = Undefined
       \/ st.procs[i].priority[1] < st.procs[j].priority[1]

ByPriority(st, i, j) ==
    \/ MoreUrgent(st, i, j)
    \/ ~MoreUrgent(st, j, i) /\ Earlier(st, i, j)

ByRemaining(st, i, j) ==
    \/ st.remaining[i] < st.remaining[j]
    \/ st.remaining[i] = st.remaining[j] /\ Earlier(st, i, j)

(* The strategies' rankings: arrival order, shortest (remaining) time,    *)
(* priority; each falls back on arrival order, then id.                    *)
Better(st, key, i, j) ==
    CASE key = "arrival"   -> Earlier(st, i, j)
      [] key = "remaining" -> ByRemaining(st, i, j)
      [] key = "priority"  -> ByPriority(st, i, j)

Select(st, key, S) == CHOOSE i \in S : \A j \in S \ {i} : Better(st, key, i, j)

RECURSIVE SortByArrival(_, _)
SortByArrival(st, S) ==
    IF S = {} THEN <<>>
    ELSE LET first == Select(st, "arrival", S)
         IN  <<first>> \o SortByArrival(st, S \ {first})

MinOf(S) == CHOOSE x \in S : \A y \in S : x <= y

NextArrival(st) == MinOf({st.procs[i].arrival_time : i \in Unfinished(st)})

(* "If no process is ready, advance the clock to the next arrival." *)
DecisionTime(st) ==
    IF \E i \in Unfinished(st) : st.procs[i].arrival_time <= st.clock
    THEN st.clock ELSE NextArrival(st)

Ready(st, t) == {i \in Unfinished(st) : st.procs[i].arrival_time <= t}

(* Mutant of Ran: the decision is recorded but remaining_time is not       *)
(* decremented.                                                            *)
RanWithoutProgress(st, i, amount, t, queue) ==
    [st EXCEPT !.clock = t + amount,
               !.queue = queue,
               !.decisions = Append(st.decisions,
                                    [idx |-> i, amount |-> amount, at |-> t])]

Ran(st, i, amount, t, queue) ==
    [st EXCEPT !.clock = t + amount,
               !.remaining[i] = st.remaining[i] - amount,
               !.queue = queue,
               !.decisions = Append(st.decisions,
                                    [idx |-> i, amount |-> amount, at |-> t])]

(* 4.2: arrival order, ties by id, each runs its full burst; no clock. *)
FCFSStep(st) ==
    LET i == Select(st, "arrival", Unfinished(st))
    IN  [st EXCEPT !.remaining[i] = 0,
                   !.decisions = Append(st.decisions,
                       [idx |-> i, amount |-> st.remaining[i], at |-> st.clock])]

(* 4.3 and 4.6: when the CPU is free, the best ready process runs to      *)
(* completion.                                                             *)
NonPreemptiveStep(st, key) ==
    LET t == DecisionTime(st)
        i == Select(st, key, Ready(st, t))
    IN  Ran(st, i, st.remaining[i], t, st.queue)

SJFStep(st) == NonPreemptiveStep(st, "remaining")

NPPSStep(st) == NonPreemptiveStep(st, "priority")

(* 4.4: dequeue the head, run min(remaining_time, quantum), enqueue what   *)
(* arrived during the slice, then the preempted process.                   *)
RRStep(st) ==
    LET t == IF st.queue = <<>> THEN NextArrival(st) ELSE st.clock
        q == IF st.queue = <<>> THEN SortByArrival(st, Ready(st, t)) ELSE st.queue
        head == q[1]
        amount == Min(st.remaining[head], st.quantum)
        arrived == {i \in Unfinished(st) :
                        /\ t < st.procs[i].arrival_time
                        /\ st.procs[i].arrival_time <= t + amount}
        requeue == IF st.remaining[head] - amount > 0 THEN <<head>> ELSE <<>>
    IN  Ran(st, head, amount, t, Tail(q) \o SortByArrival(st, arrived) \o requeue)

(* Process j, arriving when the running process i has run for ran, takes   *)
(* the CPU: strictly smaller remaining time, or strictly more urgent.      *)
Preempts(st, key, j, i, ran) ==
    CASE key = "remaining" -> st.remaining[j] < st.remaining[i] - ran
      [] key = "priority"  -> MoreUrgent(st, j, i)

(* 4.5 and 4.7: the best ready process runs until it completes or until a *)
(* process arrives that preempts it.                                       *)
PreemptiveStep(st, key) ==
    LET t == DecisionTime(st)
        i == Select(st, key, Ready(st, t))
        interrupts == {st.procs[j].arrival_time : j \in
                         {j \in Unfinished(st) :
                            /\ t < st.procs[j].arrival_time
                            /\ st.procs[j].arrival_time < t + st.remaining[i]
                            /\ Preempts(st, key, j, i, st.procs[j].arrival_time - t)}}
        end == IF interrupts = {} THEN t + st.remaining[i] ELSE MinOf(interrupts)
    IN  Ran(st, i, end - t, t, st.queue)

SRTFStep(st) == PreemptiveStep(st, "remaining")

PPSStep(st) == PreemptiveStep(st, "priority")

StrategyStep(st) ==
    CASE st.algorithm = "fCFS" -> FCFSStep(st)
      [] st.algorithm = "SJF"  -> SJFStep(st)
      [] st.algorithm = "RR"   -> RRStep(st)
      [] st.algorithm = "SRTF" -> SRTFStep(st)
      [] st.algorithm = "NPPS" -> NPPSStep(st)
      [] st.algorithm = "PPS"  -> PPSStep(st)

(* The call of a strategy: its internal copy with remaining_time. *)
BeginStrategy(procs, algorithm, q) ==
    LET st == [pc |-> "running", algorithm |-> algorithm, quantum |-> q,
               procs |-> procs, clock |-> 0,
               remaining |-> [i \in 1 .. Len(procs) |-> procs[i].burst_time],
               queue |-> <<>>, decisions |-> <<>>]
    IN  IF algorithm = "RR"
        THEN [st EXCEPT !.queue = SortByArrival(st, Ready(st, 0))]
        ELSE st

(* 7: "a zero/negative quantum makes round robin's loop stall". *)
LoopsForever(st) == st.algorithm = "RR" /\ st.quantum <= 0

RECURSIVE RunToEnd(_)
RunToEnd(st) == IF Finished(st) THEN st ELSE RunToEnd(StrategyStep(st))

(* What the strategy returns: one Process record per decision, burst_time  *)
(* the amount run; preemptivePriority stamps the start into arrival_time.  *)
RawSequence(st) ==
    [k \in 1 .. Len(st.decisions) |->
        LET d == st.decisions[k] IN
        IF st.algorithm = "PPS"
        THEN [st.procs[d.idx] EXCEPT !.burst_time = d.amount, !.arrival_time = d.at]
        ELSE [st.procs[d.idx] EXCEPT !.burst_time = d.amount]]

---------------------------------------------------------------------------
(* onSubmit *)

(* values.quantum ?? 0 *)
QuantumArg(q) == IF q = Undefined THEN 0 ELSE q[1]

(* Mutant of SliceStart: the arrival floor is dropped. *)
SliceStartNoFloor(currentTime, proc) == currentTime

(* const start = Math.max(currentTime, proc.arrival_time) *)
SliceStart(currentTime, proc) == Max(currentTime, proc.arrival_time)

(* Mutant of NextClock: the clock is not advanced by the burst. *)
NextClockNoBurst(start, proc) == start

(* currentTime = start + proc.burst_time *)
NextClock(start, proc) == start + proc.burst_time

(* raw.forEach((proc) => { ...; tl.push({ ...proc, arrival_time: start }) }) *)
RECURSIVE AssembleFrom(_, _, _)
AssembleFrom(raw, k, currentTime) ==
    IF k > Len(raw) THEN <<>>
    ELSE LET start == SliceStart(currentTime, raw[k])
         IN  <<[raw[k] EXCEPT !.arrival_time = start]>>
                \o AssembleFrom(raw, k + 1, NextClock(start, raw[k]))

(* Mutant of Assemble: every strategy's output is passed through. *)
AssemblePassThrough(raw, algorithm) == raw

(* 2) build real timeline: preemptive priority is passed through. *)
Assemble(raw, algorithm) ==
    IF algorithm = "PPS" THEN raw ELSE AssembleFrom(raw, 1, 0)

(* Mutant of ProcessesAfterRun: proc.arrival_time = start; tl.push(proc),   *)
(* the start written into the entry itself.                                *)
ProcessesStamped(procs, tl) ==
    [i \in 1 .. Len(procs) |->
        LET last == CHOOSE k \in 1 .. Len(tl) :
                        /\ tl[k].process_id = procs[i].process_id
                        /\ \A j \in (k + 1) .. Len(tl) :
                              tl[j].process_id # procs[i].process_id
        IN  [procs[i] EXCEPT !.arrival_time = tl[last].arrival_time]]

(* The caller's list after the run: the start is written into a copy of    *)
(* each entry ({ ...proc, arrival_time: start }), never into the entry.    *)
ProcessesAfterRun(procs, tl) == procs

(* The schema lets the submission through: an algorithm is chosen and the  *)
(* quantum, if any, is at most 100.                                        *)
SchemaAccepts ==
    /\ selectedAlgorithm \in Algorithms
    /\ IF quantum = Undefined THEN TRUE ELSE quantum[1] <= QuantumLimit

(* Mutant of RejectEmpty: the results of the earlier run are reset. *)
RejectEmptyClearing ==
    /\ toast' = "No processes added!"
    /\ timeline' = <<>>
    /\ metrics' = InitialMetrics
    /\ UNCHANGED <<processes, popoverOpen, editIndex, selectedAlgorithm,
                   quantum, run>>

(* if (!processes.length) { toast.error(...); return; } *)
RejectEmpty ==
    /\ toast' = "No processes added!"
    /\ UNCHANGED <<processes, timeline, metrics, popoverOpen, editIndex,
                   selectedAlgorithm, quantum, run>>

onSubmit ==
    /\ Responsive
    /\ SchemaAccepts
    /\ IF processes = <<>>
       THEN RejectEmpty
       ELSE LET st0 == BeginStrategy(processes, selectedAlgorithm, QuantumArg(quantum))
            IN  IF LoopsForever(st0)
                THEN /\ run' = [st0 EXCEPT !.pc = "hung"]
                     /\ UNCHANGED <<processes, timeline, metrics, popoverOpen,
                                    editIndex, selectedAlgorithm, quantum, toast>>
                ELSE LET st == RunToEnd(st0)
                         tl == Assemble(RawSequence(st), selectedAlgorithm)
                     IN  /\ run' = [st EXCEPT !.pc = "done"]
                         /\ timeline' = tl
                         /\ processes' = ProcessesAfterRun(processes, tl)
                         /\ UNCHANGED <<metrics, popoverOpen, editIndex,
                                        selectedAlgorithm, quantum, toast>>

(* The same handler, one strategy decision at a time. *)

(* The longest decision sequence of a terminating strategy is one unit of  *)
(* time per decision; a loop that exceeds it is cut off there.             *)
MaxDecisions == MaxProcs * (CHOOSE b \in BurstTimes : \A c \in BurstTimes : c <= b) + 1

beginRun ==
    /\ Responsive
    /\ SchemaAccepts
    /\ IF processes = <<>>
       THEN RejectEmpty
       ELSE /\ run' = BeginStrategy(processes, selectedAlgorithm, QuantumArg(quantum))
            /\ UNCHANGED <<processes, timeline, metrics, popoverOpen, editIndex,
                           selectedAlgorithm, quantum, toast>>

strategyStep ==
    /\ run.pc = "running"
    /\ ~Finished(run)
    /\ Len(run.decisions) < MaxDecisions
    /\ run' = StrategyStep(run)
    /\ UNCHANGED <<processes, timeline, metrics, popoverOpen, editIndex,
                   selectedAlgorithm, quantum, toast>>

finishRun ==
    /\ run.pc = "running"
    /\ Finished(run)
    /\ LET tl == Assemble(RawSequence(run), run.algorithm)
       IN  /\ timeline' = tl
           /\ processes' = ProcessesAfterRun(processes, tl)
    /\ run' = [run EXCEPT !.pc = "done"]
    /\ UNCHANGED <<metrics, popoverOpen, editIndex, selectedAlgorithm, quantum,
                   toast>>

---------------------------------------------------------------------------
(* Metrics (4.9), computed by SummaryTable from the list and the timeline  *)
(* and handed back through onMetrics={setMetrics}.                         *)

SliceEnd(slice) == slice.arrival_time + slice.burst_time

SlicesOf(tl, id) == {k \in 1 .. Len(tl) : tl[k].process_id = id}

MaxOf(S) == CHOOSE x \in S : \A y \in S : y <= x

(* completion_time: the end of the process's last slice *)
CompletionTime(tl, id) == MaxOf({SliceEnd(tl[k]) : k \in SlicesOf(tl, id)})

TurnaroundTime(p, tl) == CompletionTime(tl, p.process_id) - p.arrival_time

WaitingTime(p, tl) == TurnaroundTime(p, tl) - p.burst_time

RECURSIVE SumFrom(_, _)
SumFrom(numbers, k) ==
    IF k > Len(numbers) THEN 0 ELSE numbers[k] + SumFrom(numbers, k + 1)

Sum(numbers) == SumFrom(numbers, 1)

(* busy_time: the sum of the burst times *)
BusyTime(procs) == Sum([k \in 1 .. Len(procs) |-> procs[k].burst_time])

(* total_time: the makespan, the end of the last slice *)
TotalTime(tl) == IF tl = <<>> THEN 0 ELSE SliceEnd(tl[Len(tl)])

ComputeMetrics(procs, tl) ==
    [totalWaiting |-> Sum([k \in 1 .. Len(procs) |-> WaitingTime(procs[k], tl)]),
     totalTurnaround |-> Sum([k \in 1 .. Len(procs) |-> TurnaroundTime(procs[k], tl)]),
     totalTime |-> TotalTime(tl),
     busyTime |-> BusyTime(procs),
     cpuUtil |-> <<BusyTime(procs), TotalTime(tl)>>]

(* SummaryTable is rendered while the timeline is not empty (line 335); a  *)
(* process with no slice is an error and yields no metrics.                *)
onMetrics ==
    /\ Responsive
    /\ timeline # <<>>
    /\ \A i \in 1 .. Len(processes) : SlicesOf(timeline, processes[i].process_id) # {}
    /\ metrics' = ComputeMetrics(processes, timeline)
    /\ UNCHANGED <<processes, timeline, popoverOpen, editIndex, selectedAlgorithm,
                   quantum, toast, run>>

(* <ToastContainer />: a notification closes by itself. *)
toastClose ==
    /\ Responsive
    /\ toast # ""
    /\ toast' = ""
    /\ UNCHANGED <<processes, timeline, metrics, popoverOpen, editIndex,
                   selectedAlgorithm, quantum, run>>

---------------------------------------------------------------------------
(* Specifications *)

(* The page after MainForm's first render. *)
Init ==
    /\ processes = <<>>
    /\ timeline = <<>>
    /\ metrics = InitialMetrics
    /\ popoverOpen = FALSE
    /\ editIndex = Undefined
    /\ selectedAlgorithm = ""
    /\ quantum = Undefined
    /\ toast = ""
    /\ run = IdleRun

Edit ==
    \/ \E data \in ProcessFormValues(showPriority) : addProcess(data)
    \/ \E idx \in 1 .. MaxProcs : clickEdit(idx)
    \/ \E open \in BOOLEAN : onOpenChange(open)
    \/ clearAll
    \/ \E v \in Algorithms : selectAlgorithm(v)

Next ==
    \/ Edit
    \/ \E q \in QuantumInputs : setQuantum(q)
    \/ onSubmit
    \/ onMetrics
    \/ toastClose

Spec == Init /\ [][Next]_vars

(* The editing handlers never read or write timeline, metrics, toast or    *)
(* run, and onSubmit reads the list without changing it. The state space   *)
(* of Spec is the product of the two, so the properties of editing are     *)
(* explored under SpecEdit and those of a run under SpecRun, which starts  *)
(* from the lists editing can build.                                       *)

(* Editing the process list, from the first render. *)
SpecEdit == Init /\ [][Edit]_vars

(* The process lists editing can build from entries with the given        *)
(* priorities: ids 1..n in order.                                          *)
ProcessLists(priorities) ==
    UNION {{[i \in 1 .. n |->
                [process_id |-> i, arrival_time |-> f[i].arrival_time,
                 burst_time |-> f[i].burst_time, priority |-> f[i].priority]] :
            f \in [1 .. n -> [arrival_time : ArrivalTimes, burst_time : BurstTimes,
                              priority : priorities]]} :
           n \in 0 .. MaxProcs}

(* The page with a process list entered and an algorithm chosen. Under a   *)
(* priority algorithm the list mixes processes entered with and without a  *)
(* priority; the other algorithms never read the field, and their lists    *)
(* are those entered without it. For round robin the quantum field is in   *)
(* any state the schema can be handed.                                     *)
InitRun ==
    /\ selectedAlgorithm \in Algorithms
    /\ processes \in ProcessLists(IF showPriority
                                  THEN {Undefined} \cup {Some(p) : p \in Priorities}
                                  ELSE {Undefined})
    /\ quantum \in IF selectedAlgorithm = "RR" THEN QuantumInputs ELSE {Undefined}
    /\ timeline = <<>>
    /\ metrics = InitialMetrics
    /\ popoverOpen = FALSE
    /\ editIndex = Undefined
    /\ toast = ""
    /\ run = IdleRun

NextRun == onSubmit \/ clearAll \/ onMetrics \/ toastClose

(* Simulation runs on every entered list. *)
SpecRun == InitRun /\ [][NextRun]_vars

NextSteps == beginRun \/ strategyStep \/ finishRun

(* The runs decision by decision; the handler is synchronous code, so a    *)
(* loop iteration that can be taken is taken.                              *)
SpecSteps ==
    InitRun /\ [][NextSteps]_vars /\ WF_vars(strategyStep) /\ WF_vars(finishRun)

---------------------------------------------------------------------------
(* Properties *)

(* The timeline on the page is the one the last completed run produced. *)
RunDone == run.pc = "done"

(* A valid process list for the algorithm run: a priority algorithm finds  *)
(* a priority on every process (bursts and arrivals are valid by entry).   *)
ValidRun ==
    run.algorithm \in {"NPPS", "PPS"} =>
        \A i \in Indices(run) : run.procs[i].priority # Undefined

SliceNumbers == 1 .. Len(timeline)

(* The slices of the run's process i, and the first of them. *)
Segments(i) == SlicesOf(timeline, run.procs[i].process_id)

IsFirstSegment(k) == \A j \in 1 .. (k - 1) : timeline[j].process_id # timeline[k].process_id

OriginalArrival(k) == run.procs[run.decisions[k].idx].arrival_time

(* current_clock when slice k is placed: the end of the slice before it. *)
ClockBefore(k) == IF k = 1 THEN 0 ELSE SliceEnd(timeline[k - 1])

HasGap == \E k \in SliceNumbers : ClockBefore(k) < timeline[k].arrival_time

C2_InvalidQuantumRejected ==
    ~(run.pc # "idle" /\ run.algorithm = "RR" /\ run.quantum <= 0)

(* C3: a priority algorithm submitted with a process that has no priority  *)
(* is rejected before simulating: neither priority strategy is called      *)
(* with such a list.                                                       *)
C3_MissingPriorityRejected ==
    ~(/\ run.pc # "idle"
      /\ run.algorithm \in {"NPPS", "PPS"}
      /\ \E i \in Indices(run) : run.procs[i].priority = Undefined)

(* C4: a submission with an empty process list raises the error            *)
(* notification, calls no strategy and leaves timeline and metrics as they *)
(* were.                                                                   *)
C4_EmptyRejected ==
    [][(processes = <<>> /\ onSubmit) =>
          /\ toast' = "No processes added!"
          /\ run' = run
          /\ timeline' = timeline
          /\ metrics' = metrics]_vars

(* C4 witness: the notification is up after an empty submission while an   *)
(* earlier run's timeline and metrics are still on the page.               *)
C4_Witness ==
    /\ processes = <<>>
    /\ toast = "No processes added!"
    /\ timeline # <<>>
    /\ metrics # InitialMetrics

(* C5: for every valid input and every strategy, each process has          *)
(* waiting_time >= 0 and turnaround_time >= burst_time, and none of its    *)
(* slices starts before its arrival_time.                                  *)
C5_NonNegativeWaiting ==
    RunDone /\ ValidRun =>
        \A i \in Indices(run) :
            /\ Segments(i) # {}
            /\ WaitingTime(run.procs[i], timeline) >= 0
            /\ TurnaroundTime(run.procs[i], timeline) >= run.procs[i].burst_time
            /\ \A k \in Segments(i) :
                  timeline[k].arrival_time >= run.procs[i].arrival_time

(* C5 witness: a preempted process that waited, in a run where some slice  *)
(* starts exactly at its process's arrival after idle time.                *)
C5_Witness ==
    /\ RunDone /\ ValidRun
    /\ \E i \in Indices(run) :
          /\ Cardinality(Segments(i)) >= 2
          /\ WaitingTime(run.procs[i], timeline) > 0
    /\ HasGap

(* C6: for every run the slices of each process sum to its burst_time, so  *)
(* the slice durations sum to the sum of the input burst times             *)
(* (busy_time), and total_time, the end of the last slice, is at least     *)
(* busy_time.                                                              *)
C6_Conservation ==
    RunDone =>
        /\ \A i \in Indices(run) :
              /\ Segments(i) # {}
              /\ Sum([k \in SliceNumbers |->
                        IF k \in Segments(i) THEN timeline[k].burst_time ELSE 0])
                    = run.procs[i].burst_time
        /\ Sum([k \in SliceNumbers |-> timeline[k].burst_time]) = BusyTime(run.procs)
        /\ TotalTime(timeline) >= BusyTime(run.procs)

(* C6 witness: a run with a process split over several slices and idle     *)
(* time, so total_time exceeds busy_time.                                  *)
C6_Witness ==
    /\ RunDone
    /\ \E i \in Indices(run) : Cardinality(Segments(i)) >= 2
    /\ TotalTime(timeline) > BusyTime(run.procs)

(* Validated input: bursts > 0 and arrivals >= 0 by entry, and a quantum   *)
(* > 0 for round robin.                                                    *)
ValidatedRun == run.algorithm = "RR" => run.quantum > 0

(* C7: on validated input every strategy onSubmit calls terminates, with   *)
(* every remaining_time at 0.                                              *)
C7_Terminates ==
    (run.pc = "running" /\ ValidatedRun) ~> (run.pc = "done" /\ Finished(run))

(* C7 witness: a strategy that needed more decisions than there are        *)
(* processes has returned.                                                 *)
C7_Witness ==
    /\ run.pc = "done"
    /\ ValidatedRun
    /\ Finished(run)
    /\ Len(run.decisions) > Len(run.procs)

C9_StitchingMatchesStrategy ==
    RunDone /\ run.algorithm \in {"RR", "SRTF"} =>
        \A k \in SliceNumbers :
            /\ timeline[k].arrival_time = run.decisions[k].at
            /\ ~IsFirstSegment(k) => timeline[k].arrival_time = ClockBefore(k)

(* C9 witness: a round robin or SRTF run with a resumed segment and with   *)
(* a later segment placed by the arrival floor.                            *)
C9_Witness ==
    /\ RunDone
    /\ run.algorithm \in {"RR", "SRTF"}
    /\ \E k \in SliceNumbers : ~IsFirstSegment(k)
    /\ \E k \in SliceNumbers : k > 1 /\ ClockBefore(k) < timeline[k].arrival_time

(* C10: editIndex is null or an index into the process list, so a          *)
(* process-form submission appends or replaces exactly one process.        *)
C10_EditIndexValid ==
    IF editIndex = Undefined THEN TRUE ELSE editIndex[1] \in 1 .. Len(processes)

=============================================================================
